---- MODULE Spec2Model ----
(***************************************************************************)
(* Model of src/eval.rs: the TalkValue tagged union, the TalkObject field  *)
(* map with its optional proxy, the TalkObjectProxy implementation for     *)
(* TalkObject, and Expression::eval.                                       *)
(*                                                                         *)
(* A TalkObject is a record [map, proxy]; map is a function from a finite  *)
(* set of field names to TalkValues.  A `&mut TalkValue` that points into  *)
(* the context is a path of field names from the root object; reading or   *)
(* writing through the reference reads or writes the slot at that path.    *)
(* `held` is the reference the caller holds (<<>> for none), `last` is the *)
(* last call with its result, `writes` the kinds of writes made so far.    *)
(* Strings that are formatted into error texts are sequences of            *)
(* one-character strings, so that "contains" is a real substring test.     *)
(***************************************************************************)
EXTENDS Integers, Sequences, FiniteSets, TLC

VARIABLES context, dummy, held, writes, last

vars == <<context, dummy, held, writes, last>>

(* Bounds of the model. *)
MaxDepth == 2
MaxFields == 3
MaxLen == 3
MaxInt == 8
Chars == {"a", "b", "c", "t"}

(* Field names used by the callers of get and set; "42" is the name eval uses. *)
Names == {"a", "42"}
IntVals == {-1, 0, 1}
StrVals == {<<>>, <<"a", "b", "c">>}

(* ---- Option and Result ---- *)
None == [some |-> FALSE]
Some(x) == [some |-> TRUE, ref |-> x]
Ok(x) == [ok |-> TRUE, val |-> x]
Err(e) == [ok |-> FALSE, err |-> e]

(* ---- texts of the error messages, as character sequences ---- *)
TextObjectGotInt ==
    <<"O", "b", "j", "e", "c", "t", " ", "e", "x", "p", "e", "c", "t", "e", "d", ",", " ", "g", "o", "t", " ", "I", "n", "t">>
TextObjectGotString ==
    <<"O", "b", "j", "e", "c", "t", " ", "e", "x", "p", "e", "c", "t", "e", "d", ",", " ", "g", "o", "t", " ", "S", "t", "r", "i", "n", "g">>
TextObjectGotBool ==
    <<"O", "b", "j", "e", "c", "t", " ", "e", "x", "p", "e", "c", "t", "e", "d", ",", " ", "g", "o", "t", " ", "B", "o", "o", "l">>
TextIntegerGotString ==
    <<"I", "n", "t", "e", "g", "e", "r", " ", "v", "a", "l", "u", "e", " ", "e", "x", "p", "e", "c", "t", "e", "d", ",", " ", "g", "o", "t", " ", "S", "t", "r", "i", "n", "g", " ">>
TextIntegerGotBool ==
    <<"I", "n", "t", "e", "g", "e", "r", " ", "v", "a", "l", "u", "e", " ", "e", "x", "p", "e", "c", "t", "e", "d", ",", " ", "g", "o", "t", " ", "B", "o", "o", "l", " ">>
TextIntegerGotObject ==
    <<"I", "n", "t", "e", "g", "e", "r", " ", "v", "a", "l", "u", "e", " ", "e", "x", "p", "e", "c", "t", "e", "d", ",", " ", "g", "o", "t", " ", "O", "b", "j", "e", "c", "t">>
TextOops ==
    <<"o", "o", "p", "s">>

(* Display of a bool, as `{}` formats it. *)
fmt_bool(b) == IF b THEN <<"t", "r", "u", "e">> ELSE <<"f", "a", "l", "s", "e">>

(* ---- TalkValue ---- *)
TalkValue_Int(i) == [tag |-> "Int", i |-> i]
TalkValue_String(s) == [tag |-> "String", s |-> s]
TalkValue_Bool(b) == [tag |-> "Bool", b |-> b]
TalkValue_Object(o) == [tag |-> "Object", o |-> o]

TalkObject_new == [map |-> <<>>, proxy |-> None]

new_obj == TalkValue_Object(TalkObject_new)
new_str(s) == TalkValue_String(s)
new_int(i) == TalkValue_Int(i)

TalkEvalError_new(text) == [text |-> text]

(* ---- HashMap operations used by TalkObject ---- *)
contains_key(map, name) == name \in DOMAIN map
insert(map, name, val) ==
    [m \in (DOMAIN map) \cup {name} |-> IF m = name THEN val ELSE map[m]]
get_mut(map, name) == IF name \in DOMAIN map THEN Some(name) ELSE None

(* ---- faulty variants, used to show that the properties depend on the code ---- *)
(* get that inserts a new object even when the name is present *)
get_reinsert(self, name) ==
    LET self1 == [self EXCEPT !.map = insert(self.map, name, new_obj)]
    IN  [self |-> self1, ret |-> get_mut(self1.map, name)]
(* get that only looks the name up *)
get_lookup_only(self, name) == [self |-> self, ret |-> get_mut(self.map, name)]
(* set that replaces the whole map *)
set_replace_map(self, name, val) == [self EXCEPT !.map = insert(<<>>, name, val)]
(* is_empty as the default method of the trait *)
is_empty_default(self) == FALSE
(* as_bool without the negation for objects *)
as_bool_object_inverted(self) ==
    CASE self.tag = "Int" -> self.i # 0
      [] self.tag = "String" -> Len(self.s) # 0
      [] self.tag = "Bool" -> self.b
      [] self.tag = "Object" -> Cardinality(DOMAIN self.o.map) = 0
(* as_object with the message of the first arm in every failing arm *)
as_object_same_text(self) ==
    IF self.tag = "Object" THEN Ok(<<>>) ELSE Err(TalkEvalError_new(TextObjectGotInt))
(* into_int that leaves the value out of the message *)
into_int_no_value(self) ==
    CASE self.tag = "Int" -> Ok(self.i)
      [] self.tag = "String" -> Err(TalkEvalError_new(TextIntegerGotString))
      [] self.tag = "Bool" -> Err(TalkEvalError_new(TextIntegerGotBool))
      [] self.tag = "Object" -> Err(TalkEvalError_new(TextIntegerGotObject))

(* ---- impl TalkObjectProxy for TalkObject ---- *)
(* get: the object after the call and the returned Option<&mut TalkValue>,  *)
(* the reference being the slot of the map it points to.                    *)
get(self, name) ==
    LET self1 == IF ~contains_key(self.map, name)
                 THEN [self EXCEPT !.map = insert(self.map, name, new_obj)]
                 ELSE self
    IN  [self |-> self1, ret |-> get_mut(self1.map, name)]

set(self, name, val) == [self EXCEPT !.map = insert(self.map, name, val)]

is_empty(self) == Cardinality(DOMAIN self.map) = 0

(* ---- impl TalkValue ---- *)
as_bool(self) ==
    CASE self.tag = "Int" -> self.i # 0
      [] self.tag = "String" -> Len(self.s) # 0
      [] self.tag = "Bool" -> self.b
      [] self.tag = "Object" -> ~is_empty(self.o)

(* as_object: Ok carries the reference to the inner TalkObject, which is   *)
(* the value's own slot (the empty relative path).                         *)
as_object(self) ==
    CASE self.tag = "Int" -> Err(TalkEvalError_new(TextObjectGotInt))
      [] self.tag = "String" -> Err(TalkEvalError_new(TextObjectGotString))
      [] self.tag = "Bool" -> Err(TalkEvalError_new(TextObjectGotBool))
      [] self.tag = "Object" -> Ok(<<>>)

into_int(self) ==
    CASE self.tag = "Int" -> Ok(self.i)
      [] self.tag = "String" -> Err(TalkEvalError_new(TextIntegerGotString \o self.s))
      [] self.tag = "Bool" -> Err(TalkEvalError_new(TextIntegerGotBool \o fmt_bool(self.b)))
      [] self.tag = "Object" -> Err(TalkEvalError_new(TextIntegerGotObject))

(* ok_or on the Option that get returns. *)
ok_or(opt, e) == IF opt.some THEN Ok(opt.ref) ELSE Err(e)

(* Expression::eval: the context after the call and the EvalResult. *)
eval(ctx) ==
    LET r == get(ctx, "42")
    IN  [self |-> r.self, ret |-> ok_or(r.ret, TalkEvalError_new(TextOops))]

(* ---- tests::DummyProxy ---- *)
DummyProxy_new == [value |-> TalkValue_Bool(TRUE)]

(* ---- references into the context ---- *)
(* The value stored in the slot that the non-empty path names. *)
RECURSIVE ValueAt(_, _)
ValueAt(obj, path) ==
    LET v == obj.map[Head(path)]
    IN  IF Len(path) = 1 THEN v ELSE ValueAt(v.o, Tail(path))

(* The object after `*r = val` for the reference r at the non-empty path. *)
RECURSIVE WriteAt(_, _, _)
WriteAt(obj, path, val) ==
    IF Len(path) = 1
    THEN [obj EXCEPT !.map[Head(path)] = val]
    ELSE [obj EXCEPT !.map[Head(path)] =
              TalkValue_Object(WriteAt(@.o, Tail(path), val))]

(* The TalkObject a path denotes: the root for <<>>, else the Object in the slot. *)
ObjAt(root, path) == IF path = <<>> THEN root ELSE ValueAt(root, path).o
PutObj(root, path, obj) ==
    IF path = <<>> THEN obj ELSE WriteAt(root, path, TalkValue_Object(obj))

RECURSIVE Fields(_)
RECURSIVE FieldsOf(_, _)
FieldsOf(obj, names) ==
    IF names = {} THEN 0
    ELSE LET n == CHOOSE x \in names : TRUE
             v == obj.map[n]
         IN  1 + (IF v.tag = "Object" THEN Fields(v.o) ELSE 0)
               + FieldsOf(obj, names \ {n})
Fields(obj) == FieldsOf(obj, DOMAIN obj.map)

(* Values a caller passes in by value. *)
Inputs ==
    {new_int(i) : i \in IntVals} \cup {new_str(s) : s \in StrVals}
        \cup {TalkValue_Bool(b) : b \in BOOLEAN} \cup {new_obj}

(* Owned values handed to into_int: texts up to MaxLen characters. *)
RECURSIVE Texts(_)
Texts(n) ==
    IF n = 0 THEN {<<>>}
    ELSE Texts(n - 1) \cup {Append(t, c) : t \in Texts(n - 1), c \in Chars}
Owned ==
    {new_int(i) : i \in -MaxInt..MaxInt} \cup {new_str(s) : s \in Texts(MaxLen)}
        \cup {TalkValue_Bool(b) : b \in BOOLEAN}
        \cup {new_obj} \cup {TalkValue_Object(set(TalkObject_new, n, v)) : n \in Names, v \in Inputs}

NoArg == None
(* A plain (non-Option, non-Result) return value, kept in a record so that *)
(* the results of different calls are comparable.                           *)
Plain(x) == [val |-> x]
Call(op, at, name, arg, ret) ==
    [op |-> op, at |-> at, name |-> name, arg |-> arg, ret |-> ret]

(* ---- the state machine ---- *)
Init ==
    /\ context = TalkObject_new
    /\ dummy = DummyProxy_new
    /\ held = <<>>
    /\ writes = {}
    /\ last = Call("new", <<>>, "", NoArg, None)

(* tests::test_bool: context.proxy = Some(&mut dummy) on the new context. *)
InstallProxy ==
    /\ context = TalkObject_new
    /\ context' = [context EXCEPT !.proxy = Some("dummy")]
    /\ held' = <<>>
    /\ last' = Call("proxy", <<>>, "", NoArg, None)
    /\ UNCHANGED <<dummy, writes>>

(* The call obj.get(name) on the object at path `at`. *)
DoGet(at, name) ==
    LET r == get(ObjAt(context, at), name)
    IN  /\ Len(at) < MaxDepth
        /\ context' = PutObj(context, at, r.self)
        /\ Fields(context') <= MaxFields
        /\ held' = IF r.ret.some THEN at \o <<r.ret.ref>> ELSE <<>>
        /\ last' = Call("get", at, name, NoArg, r.ret)
        /\ UNCHANGED <<dummy, writes>>

DoSet(at, name, val) ==
    /\ Len(at) < MaxDepth
    /\ context' = PutObj(context, at, set(ObjAt(context, at), name, val))
    /\ Fields(context') <= MaxFields
    /\ held' = at
    /\ writes' = writes \cup {"set"}
    /\ last' = Call("set", at, name, val, None)
    /\ UNCHANGED dummy

DoIsEmpty(at) ==
    /\ last' = Call("is_empty", at, "", NoArg, Plain(is_empty(ObjAt(context, at))))
    /\ held' = at
    /\ UNCHANGED <<context, dummy, writes>>

(* context.get(name), context.set(name, val), context.is_empty() *)
Get(name) == DoGet(<<>>, name)
Set(name, val) == DoSet(<<>>, name, val)
IsEmpty == DoIsEmpty(<<>>)

HeldObject == held # <<>> /\ ValueAt(context, held).tag = "Object"

(* r.as_object()?.get(name) etc. for the held reference r; after set and   *)
(* is_empty the caller still holds r, after get it holds the new reference. *)
ObjGet(name) == HeldObject /\ DoGet(held, name)
ObjSet(name, val) == HeldObject /\ DoSet(held, name, val)
ObjIsEmpty == HeldObject /\ DoIsEmpty(held)

(* expr.eval(&mut context) for Expression::Dummy *)
Eval ==
    LET r == eval(context)
    IN  /\ context' = r.self
        /\ Fields(context') <= MaxFields
        /\ held' = IF r.ret.ok THEN <<r.ret.val>> ELSE <<>>
        /\ last' = Call("eval", <<>>, "", NoArg, r.ret)
        /\ UNCHANGED <<dummy, writes>>

(* r.as_bool() *)
AsBool ==
    /\ held # <<>>
    /\ last' = Call("as_bool", held, "", NoArg,
                  Plain(as_bool(ValueAt(context, held))))
    /\ UNCHANGED <<context, dummy, held, writes>>

(* r.as_object() *)
AsObject ==
    /\ held # <<>>
    /\ last' = Call("as_object", held, "", NoArg, as_object(ValueAt(context, held)))
    /\ UNCHANGED <<context, dummy, held, writes>>

(* *r = val *)
Assign(val) ==
    /\ held # <<>>
    /\ context' = WriteAt(context, held, val)
    /\ writes' = writes \cup {"assign"}
    /\ last' = Call("assign", held, "", val, None)
    /\ UNCHANGED <<dummy, held>>

(* val.into_int() on an owned value *)
IntoInt(val) ==
    /\ last' = Call("into_int", <<>>, "", val, into_int(val))
    /\ UNCHANGED <<context, dummy, held, writes>>

Next ==
    \/ InstallProxy
    \/ \E name \in Names : Get(name)
    \/ \E name \in Names, val \in Inputs : Set(name, val)
    \/ IsEmpty
    \/ \E name \in Names : ObjGet(name)
    \/ \E name \in Names, val \in Inputs : ObjSet(name, val)
    \/ ObjIsEmpty
    \/ Eval
    \/ AsBool
    \/ AsObject
    \/ \E val \in Inputs : Assign(val)

Spec == Init /\ [][Next]_vars

(* into_int applied to owned values of every variant. *)
NextIntoInt == \E val \in Owned : IntoInt(val)

SpecIntoInt == Init /\ [][NextIntoInt]_vars


(***************************************************************************)
(* Properties                                                              *)
(***************************************************************************)

(* The object a call of `last` was made on, and whether it has a proxy. *)
Target(root, call) == ObjAt(root, call.at)
NoDelegate(root, call) == ~Target(root, call).proxy.some
Count(obj) == Cardinality(DOMAIN obj.map)
Contains(hay, needle) ==
    \E i \in 1..(Len(hay) - Len(needle) + 1) :
        SubSeq(hay, i, i + Len(needle) - 1) = needle
KindLabel(v) ==
    CASE v.tag = "Int" -> <<"I", "n", "t">>
      [] v.tag = "String" -> <<"S", "t", "r", "i", "n", "g">>
      [] v.tag = "Bool" -> <<"B", "o", "o", "l">>
      [] v.tag = "Object" -> <<"O", "b", "j", "e", "c", "t">>
Rendering(v) ==
    CASE v.tag = "String" -> v.s
      [] v.tag = "Bool" -> IF v.b THEN <<"t", "r", "u", "e">> ELSE <<"f", "a", "l", "s", "e">>

(* C1: with a Delegate installed on the context, get (and eval of          *)
(* Expression::Dummy) returns the Delegate's Boolean(true) and the         *)
(* context's local map stays empty.                                        *)
C1_DelegateForwarded ==
    (context.proxy.some /\ last.op \in {"get", "eval"} /\ last.at = <<>>)
        => /\ Count(context) = 0
           /\ held # <<>>
           /\ ValueAt(context, held) = dummy.value

(* C2 as stated: eval of Expression::Dummy on a fresh context with no      *)
(* Delegate succeeds with an Integer and leaves the context empty.         *)
C2_EvalProducesInteger ==
    [][(context = TalkObject_new /\ last'.op = "eval")
          => /\ last'.ret.ok
             /\ Count(context') = 0
             /\ held' # <<>>
             /\ ValueAt(context', held').tag = "Int"]_vars

(* C2 amended: eval of Expression::Dummy on a fresh context with no        *)
(* Delegate succeeds with a reference to the empty Object that it          *)
(* auto-vivifies under the name "42", which is then the context's only     *)
(* field.                                                                  *)
C2_EvalVivifies ==
    [][(context = TalkObject_new /\ last'.op = "eval")
          => /\ last'.ret = Ok("42")
             /\ held' = <<"42">>
             /\ DOMAIN context'.map = {"42"}
             /\ ValueAt(context', held') = new_obj
             /\ ~context'.proxy.some]_vars

C2_Witness ==
    /\ last.op = "eval"
    /\ ~context.proxy.some
    /\ writes = {}
    /\ DOMAIN context.map = {"42"}
    /\ context.map["42"] = new_obj

(* C3: without a Delegate, get(name) never returns None; for an absent     *)
(* name it adds exactly the entry name -> empty Object, so the object is   *)
(* not empty afterwards; for a present name it returns the existing value  *)
(* and changes nothing, the entry count included.                          *)
C3_GetAutoVivifies ==
    [][(last'.op = "get" /\ NoDelegate(context, last'))
          => LET n == last'.name
                 old == Target(context, last')
                 new == Target(context', last')
             IN  /\ last'.ret = Some(n)
                 /\ held' = last'.at \o <<n>>
                 /\ ~is_empty(new)
                 /\ n \notin DOMAIN old.map
                      => /\ DOMAIN new.map = DOMAIN old.map \cup {n}
                         /\ Count(new) = Count(old) + 1
                         /\ new.map[n] = new_obj
                 /\ n \in DOMAIN old.map
                      => /\ new = old
                         /\ Count(new) = Count(old)
                         /\ ValueAt(context', held') = old.map[n]]_vars

C3_Witness ==
    /\ last.op = "get"
    /\ NoDelegate(context, last)
    /\ writes = {}
    /\ last.ret = Some("a")
    /\ ValueAt(context, held) = new_obj
    /\ ~is_empty(Target(context, last))

(* C4: without a Delegate, get(name) right after set(name, v) on the same  *)
(* object returns a reference to a value equal to v, whatever was stored   *)
(* under name before, and does not change the object.                      *)
C4_SetThenGet ==
    [][(/\ last.op = "set" /\ last'.op = "get"
        /\ last'.at = last.at /\ last'.name = last.name
        /\ NoDelegate(context, last))
          => /\ last'.ret = Some(last.name)
             /\ ValueAt(context', held') = last.arg
             /\ context' = context]_vars

C4_Witness ==
    /\ last.op = "get" /\ last.at = <<>> /\ last.name = "a"
    /\ ~context.proxy.some
    /\ writes = {"set"}
    /\ ValueAt(context, held) = new_int(1)

(* C5: a new context is empty, and without a Delegate is_empty() returns   *)
(* true exactly when the object's map has no entry.                        *)
C5_IsEmptyIffNoEntries ==
    /\ last.op = "new" => (is_empty(context) /\ DOMAIN context.map = {})
    /\ (last.op = "is_empty" /\ NoDelegate(context, last))
          => (last.ret.val <=> DOMAIN Target(context, last).map = {})

C5_Witness ==
    /\ last.op = "is_empty"
    /\ NoDelegate(context, last)
    /\ last.ret = Plain(FALSE)
    /\ DOMAIN Target(context, last).map # {}

(* C6: as_bool is Integer nonzero, Text non-empty, Boolean itself, Object  *)
(* having at least one field, auto-vivified fields included.               *)
C6_AsBoolTruthiness ==
    last.op = "as_bool"
        => LET v == ValueAt(context, last.at)
           IN  /\ last.ret.val \in BOOLEAN
               /\ v.tag = "Int" => (last.ret.val <=> v.i # 0)
               /\ v.tag = "String" => (last.ret.val <=> v.s # <<>>)
               /\ v.tag = "Bool" => (last.ret.val <=> v.b)
               /\ v.tag = "Object" => (last.ret.val <=> Count(v.o) # 0)

C6_Witness ==
    /\ last.op = "as_bool"
    /\ writes = {}
    /\ ValueAt(context, last.at).tag = "Object"
    /\ last.ret = Plain(TRUE)

(* C7: as_object succeeds exactly on an Object, with the inner object; on  *)
(* Int, String and Bool it fails with the text "Object expected, got "     *)
(* followed by the label of the actual kind, and the value is unchanged.   *)
C7_AsObject ==
    /\ [](last.op = "as_object"
            => LET v == ValueAt(context, last.at)
               IN  /\ last.ret.ok <=> v.tag = "Object"
                   /\ last.ret.ok => last.ret = Ok(<<>>)
                   /\ ~last.ret.ok
                        => /\ Contains(last.ret.err.text, <<"O", "b", "j", "e", "c", "t">>)
                           /\ last.ret.err.text =
                                <<"O", "b", "j", "e", "c", "t", " ", "e", "x", "p",
                                  "e", "c", "t", "e", "d", ",", " ", "g", "o", "t",
                                  " ">> \o KindLabel(v))
    /\ [][last'.op = "as_object" => (context' = context /\ held' = held)]_vars

C7_Witness ==
    /\ last.op = "as_object"
    /\ ValueAt(context, last.at).tag = "String"
    /\ ~last.ret.ok

(* C8: into_int returns the integer exactly on an Int; on the other        *)
(* variants the error text contains "Integer" and the label of the actual  *)
(* kind, and for String and Bool also the rendering of the value.          *)
C8_IntoInt ==
    last.op = "into_int"
        => LET v == last.arg
           IN  /\ last.ret.ok <=> v.tag = "Int"
               /\ last.ret.ok => last.ret.val = v.i
               /\ ~last.ret.ok
                    => /\ Contains(last.ret.err.text, <<"I", "n", "t", "e", "g", "e", "r">>)
                       /\ Contains(last.ret.err.text, KindLabel(v))
                       /\ v.tag \in {"String", "Bool"}
                            => Contains(last.ret.err.text,
                                        <<" ">> \o KindLabel(v) \o <<" ">> \o Rendering(v))

C8_Witness ==
    /\ last.op = "into_int"
    /\ last.arg = new_str(<<"a", "b", "c">>)
    /\ ~last.ret.ok
    /\ Contains(last.ret.err.text, <<"a", "b", "c">>)

(* C9: the reference get returns is the storage slot: after               *)
(* get(a).as_object().set(b, v), or after overwriting *get(a) with v, the  *)
(* next get(a) on the same object returns a reference through which v is   *)
(* seen, and every write through a held reference lands in the context.    *)
C9_GetAliasesStorage ==
    /\ [][(/\ last.op = "set" /\ Len(last.at) = 1
           /\ last'.op = "get" /\ last'.at = <<>> /\ last'.name = last.at[1])
             => /\ held' = last.at
                /\ as_object(ValueAt(context', held')).ok
                /\ last.name \in DOMAIN ValueAt(context', held').o.map
                /\ ValueAt(context', held' \o <<last.name>>) = last.arg]_vars
    /\ [][(/\ last.op = "assign"
           /\ last'.op = "get" /\ last'.at \o <<last'.name>> = last.at)
             => /\ held' = last.at
                /\ ValueAt(context', held') = last.arg]_vars
    /\ [][last'.op = "assign"
             => ValueAt(context', held) = last'.arg]_vars

C9_Witness ==
    /\ last.op = "get" /\ last.at = <<"a">> /\ last.name = "42"
    /\ writes = {"set"}
    /\ held = <<"a", "42">>
    /\ ValueAt(context, held) = new_int(1)

(* C10: without a Delegate, get(name) and set(name, v) leave every other   *)
(* field of the object as it was, and no step removes a field name from    *)
(* the context or from the object a get or set is made on.                 *)
C10_OtherFieldsKept ==
    /\ [][(last'.op \in {"get", "set"} /\ NoDelegate(context, last'))
             => LET old == Target(context, last')
                    new == Target(context', last')
                IN  /\ DOMAIN old.map \subseteq DOMAIN new.map
                    /\ DOMAIN new.map \subseteq DOMAIN old.map \cup {last'.name}
                    /\ \A m \in DOMAIN old.map \ {last'.name} :
                           new.map[m] = old.map[m]]_vars
    /\ [][DOMAIN context.map \subseteq DOMAIN context'.map]_vars

C10_Witness ==
    /\ last.op = "set"
    /\ NoDelegate(context, last)
    /\ Count(Target(context, last)) = 2
    /\ \E m \in DOMAIN Target(context, last).map \ {last.name} :
           Target(context, last).map[m].tag # "Object"

====
